---- MODULE Spec2Model ----
(***************************************************************************)
(* Model of main/dataset/base.py (class ManipData): the per-sample feature *)
(* synthesis (process_data, load_retargeted_data), the finite-difference   *)
(* kinematics (compute_velocity, compute_angular_velocity,                 *)
(* compute_dof_velocity) and the seeded surface sampler                    *)
(* (random_sampling_pc) with its save / reseed / draw / restore section.   *)
(*                                                                         *)
(* Numbers.  Positions are integer 3-vectors.  Rotations are the 24        *)
(* rotation matrices with entries in {-1,0,1} (quarter turns and their     *)
(* products), so that matrix products are exact.  An axis-angle vector is  *)
(* [dir, deg]: the direction of the axis as a sign vector and the angle in *)
(* degrees.  A quotient is kept as numerator and denominator.  A Gaussian  *)
(* smoothing result is kept as the window of input frames it is the fixed  *)
(* weighted sum of.  The 1e-8 of line 70 is below this resolution.         *)
(***************************************************************************)
EXTENDS Integers, Sequences, FiniteSets, TLC

VARIABLES
    \* ---- ManipData configuration (constructor, lines 14-47)
    max_seq_len,      \* self.max_seq_len
    skip,             \* self.skip
    mujoco2gym_transf,\* self.mujoco2gym_transf, [R, p]
    \* ---- one sample request: process_data, then load_retargeted_data
    data,             \* the Sample dict, mutated in place
    raw,              \* the Sample as the upstream loader handed it over
    rs_verts_obj,     \* the point cloud passed to process_data
    artifact,         \* the file at retargeted_data_path: NoFile or its content
    stage,            \* position of the request
    err,              \* the exception the request ended with, or "none"
    opt_set,          \* the bundle as the branch of lines 166-190 set it
    \* ---- compute_angular_velocity called on its own
    av_r,             \* argument r, a rotation series [T, K=1, 3, 3]
    av_out,           \* the value returned
    av_stage,
    \* ---- ambient random number generators and random_sampling_pc
    numpy_rng,        \* state of numpy's global generator
    torch_rng,        \* state of torch's CPU generator
    cuda_rng,         \* device -> state of that device's generator
    cudnn,            \* torch.backends.cudnn flags
    mesh,             \* the mesh every call samples, [verts, device]
    wpc,              \* worker -> line of random_sampling_pc it is at
    locals,           \* worker -> the three saved states
    ret,              \* worker -> sequence of clouds its calls returned
    rng_before,       \* ambient state before either of two workers started
    call_before,      \* worker -> ambient state when the call it is in, or
                      \* has just returned from, started
    overlapped        \* whether two save..restore sections ever overlapped

pipe_vars == <<max_seq_len, skip, mujoco2gym_transf, data, raw, rs_verts_obj,
               artifact, stage, err, opt_set>>
av_vars == <<av_r, av_out, av_stage>>
rng_vars == <<numpy_rng, torch_rng, cuda_rng, cudnn, mesh, wpc, locals, ret,
              rng_before, call_before, overlapped>>
vars == <<pipe_vars, av_vars, rng_vars>>

(***************************************************************************)
(* Bounds of the model.                                                    *)
(***************************************************************************)
MaxT == 3          \* longest series of frames handed in
NDofs == 2         \* dexhand.n_dofs of the hand model in use
RngMod == 3        \* number of distinct generator states kept apart
NumDevices == 2    \* accelerator devices of the host
MaxCalls == 2      \* calls of random_sampling_pc per worker

(***************************************************************************)
(* Program constants.                                                      *)
(***************************************************************************)
NativeRate == 120  \* the 120 of 1 / (120 / self.skip)
Sigma == 2         \* sigma of gaussian_filter1d
SeedValue == 0     \* the seed of lines 89-92

\* scipy's kernel radius, int(truncate * sigma + 0.5) with truncate = 4.0
Radius == 4 * Sigma

Min(a, b) == IF a < b THEN a ELSE b
Max(a, b) == IF a > b THEN a ELSE b

\* Python's x[:n], n of either sign
SliceTo(x, n) ==
    IF n >= 0 THEN SubSeq(x, 1, Min(n, Len(x)))
    ELSE SubSeq(x, 1, Max(Len(x) + n, 0))

\* Python's x[-1:]
SliceLast(x) == IF Len(x) = 0 THEN <<>> ELSE <<x[Len(x)]>>

\* dict.update
Update(d, u) ==
    [k \in (DOMAIN d) \cup (DOMAIN u) |-> IF k \in DOMAIN u THEN u[k] ELSE d[k]]

(***************************************************************************)
(* Vectors and 3x3 matrices.                                               *)
(***************************************************************************)
VecAdd(a, b) == <<a[1] + b[1], a[2] + b[2], a[3] + b[3]>>
VecSub(a, b) == <<a[1] - b[1], a[2] - b[2], a[3] - b[3]>>
Dot(a, b) == a[1] * b[1] + a[2] * b[2] + a[3] * b[3]
Col(A, j) == <<A[1][j], A[2][j], A[3][j]>>
Transpose(A) == <<Col(A, 1), Col(A, 2), Col(A, 3)>>
MatVec(A, v) == <<Dot(A[1], v), Dot(A[2], v), Dot(A[3], v)>>
MatMul(A, B) ==
    [i \in 1..3 |-> [j \in 1..3 |-> Dot(A[i], Col(B, j))]]
Sgn(x) == IF x > 0 THEN 1 ELSE IF x < 0 THEN -1 ELSE 0
SgnVec(v) == <<Sgn(v[1]), Sgn(v[2]), Sgn(v[3])>>

I3 == <<<<1, 0, 0>>, <<0, 1, 0>>, <<0, 0, 1>>>>
RX == <<<<1, 0, 0>>, <<0, 0, -1>>, <<0, 1, 0>>>>   \* quarter turn about x
RY == <<<<0, 0, 1>>, <<0, 1, 0>>, <<-1, 0, 0>>>>   \* quarter turn about y
RZ == <<<<0, -1, 0>>, <<1, 0, 0>>, <<0, 0, 1>>>>   \* quarter turn about z

RECURSIVE MatPow(_, _)
MatPow(A, n) == IF n = 0 THEN I3 ELSE MatMul(A, MatPow(A, n - 1))

(***************************************************************************)
(* main.dataset.transform: rotmat_to_aa and aa_to_rotmat.                  *)
(***************************************************************************)
Trace(R) == R[1][1] + R[2][2] + R[3][3]
\* twice the sine of the angle times the unit axis
SkewPart(R) == <<R[3][2] - R[2][3], R[1][3] - R[3][1], R[2][1] - R[1][2]>>
\* for a half turn R + I = 2 a a^T: a row that is not zero gives the axis
HalfTurnAxis(R) ==
    LET P == [i \in 1..3 |-> [j \in 1..3 |-> R[i][j] + I3[i][j]]]
        i == CHOOSE i \in 1..3 : P[i] # <<0, 0, 0>> /\
                 \A j \in 1..3 : j < i => P[j] = <<0, 0, 0>>
    IN  SgnVec(P[i])

rotmat_to_aa(R) ==
    CASE Trace(R) = 3  -> [dir |-> <<0, 0, 0>>, deg |-> 0]
      [] Trace(R) = 1  -> [dir |-> SgnVec(SkewPart(R)), deg |-> 90]
      [] Trace(R) = 0  -> [dir |-> SgnVec(SkewPart(R)), deg |-> 120]
      [] OTHER         -> [dir |-> HalfTurnAxis(R), deg |-> 180]

Cross(a) == <<<<0, -a[3], a[2]>>, <<a[3], 0, -a[1]>>, <<-a[2], a[1], 0>>>>
Outer(a) == [i \in 1..3 |-> [j \in 1..3 |-> a[i] * a[j]]]

\* Rodrigues' formula cos I + sin [a]x + (1 - cos) a a^T at the four angles
aa_to_rotmat(a) ==
    LET d == a.dir
        n2 == Dot(d, d)
    IN  CASE a.deg = 0   -> I3
          [] a.deg = 90  ->
                [i \in 1..3 |-> [j \in 1..3 |-> Cross(d)[i][j] + Outer(d)[i][j]]]
          [] a.deg = 120 ->
                [i \in 1..3 |-> [j \in 1..3 |->
                    (Cross(d)[i][j] + Outer(d)[i][j] - I3[i][j]) \div 2]]
          [] OTHER       ->
                [i \in 1..3 |-> [j \in 1..3 |->
                    (2 * Outer(d)[i][j]) \div n2 - I3[i][j]]]

(***************************************************************************)
(* FiniteDifferenceKinematics, lines 56-83.  A series is a sequence of     *)
(* frames, a frame a tuple of integers.  The singleton axis the callers    *)
(* insert with [:, None] and remove with squeeze(1) changes no element and *)
(* is not kept.  time_delta is the quotient [num, den].                    *)
(***************************************************************************)
EltSub(a, b) == [i \in DOMAIN a |-> a[i] - b[i]]
EltScale(c, a) == [i \in DOMAIN a |-> c * a[i]]

(* np.gradient(p, axis=0), doubled: central differences inside, one-sided  *)
(* differences at both ends.  numpy raises ValueError below two frames.    *)
GradientRaises(p) == Len(p) < 2
Gradient2(p) ==
    [t \in 1..Len(p) |->
        IF t = 1 THEN EltScale(2, EltSub(p[2], p[1]))
        ELSE IF t = Len(p) THEN EltScale(2, EltSub(p[t], p[t - 1]))
        ELSE EltSub(p[t + 1], p[t - 1])]

(* gaussian_filter1d(v, 2, axis=0, mode="nearest"): frame t is the fixed   *)
(* weighted sum of the frames t-Radius..t+Radius, indices clamped.         *)
Clamp(i, n) == IF i < 1 THEN 1 ELSE IF i > n THEN n ELSE i
gaussian_filter1d(v) ==
    [t \in 1..Len(v) |->
        [smooth |-> [i \in 1..(2 * Radius + 1) |-> v[Clamp(t + i - Radius - 1, Len(v))]]]]

TimeDelta(sk) == [num |-> sk, den |-> NativeRate]  \* 1 / (120 / skip)

compute_velocity(p, time_delta, guassian_filter) ==
    LET g == Gradient2(p)
        velocity == [t \in 1..Len(p) |->
                        [num |-> EltScale(time_delta.den, g[t]),
                         den |-> 2 * time_delta.num]]
    IN  IF guassian_filter THEN gaussian_filter1d(velocity) ELSE velocity

\* the relative rotation taken the other way round, r[:-1] @ r[1:]^T
DiffRReversed(r) ==
    [t \in 1..Max(Len(r) - 1, 0) |-> MatMul(r[t], Transpose(r[t + 1]))]

\* line 67: r[1:] @ r[:-1].transpose(-1, -2)
DiffR(r) ==
    [t \in 1..Max(Len(r) - 1, 0) |-> MatMul(r[t + 1], Transpose(r[t]))]

\* lines 69-71: axis * angle / time_delta of one axis-angle vector
AxisAngleRate(aa, time_delta) ==
    LET diff_angle == aa.deg
        diff_axis == aa.dir
    IN  [dir |-> diff_axis, num |-> diff_angle * time_delta.den,
         den |-> time_delta.num]

compute_angular_velocity(r, time_delta, guassian_filter) ==
    LET diff_r == DiffR(r)
        diff_aa == [t \in 1..Len(diff_r) |-> rotmat_to_aa(diff_r[t])]
        av1 == [t \in 1..Len(diff_aa) |-> AxisAngleRate(diff_aa[t], time_delta)]
        angular_velocity == av1 \o SliceLast(av1)
    IN  IF guassian_filter THEN gaussian_filter1d(angular_velocity)
        ELSE angular_velocity

compute_dof_velocity(dof, time_delta, guassian_filter) ==
    LET g == Gradient2(dof)
        velocity == [t \in 1..Len(dof) |->
                        [num |-> EltScale(time_delta.den, g[t]),
                         den |-> 2 * time_delta.num]]
    IN  IF guassian_filter THEN gaussian_filter1d(velocity) ELSE velocity

(***************************************************************************)
(* The Sample.  A rigid transform is [R, p]: rotation block and            *)
(* translation column of the 4x4 matrix.                                   *)
(***************************************************************************)
tip_list == <<"thumb_tip", "index_tip", "middle_tip", "ring_tip", "pinky_tip">>
\* the keys of data["mano_joints"], in the dict's order
JointOrder == tip_list \o <<"index_proximal">>
JointKeys == {JointOrder[i] : i \in DOMAIN JointOrder}

\* F @ M for two rigid transforms
RigidMul(F, M) == [R |-> MatMul(F.R, M.R), p |-> VecAdd(MatVec(F.R, M.p), F.p)]
\* (F[:3, :3] @ x.T).T + F[:3, 3]
RigidApply(F, x) == VecAdd(MatVec(F.R, x), F.p)

\* lines 106-112
TransformFrame(d, F) ==
    Update(d,
      [obj_trajectory |-> [t \in 1..Len(d.obj_trajectory) |-> RigidMul(F, d.obj_trajectory[t])],
       wrist_pos |-> [t \in 1..Len(d.wrist_pos) |-> RigidApply(F, d.wrist_pos[t])],
       wrist_rot |-> [t \in 1..Len(d.wrist_rot) |-> rotmat_to_aa(MatMul(F.R, d.wrist_rot[t]))],
       mano_joints |-> [k \in JointKeys |->
           [t \in 1..Len(d.mano_joints[k]) |-> RigidApply(F, d.mano_joints[k][t])]]])

\* chamfer distance, first output: per query point the least squared
\* distance to a point of the cloud
SqDist(a, b) == Dot(VecSub(a, b), VecSub(a, b))
MinOf(S) == CHOOSE m \in S : \A x \in S : m <= x
ch_dist(tips, cloud) ==
    [t \in 1..Len(tips) |-> [j \in 1..Len(tips[t]) |->
        MinOf({SqDist(tips[t][j], cloud[t][i]) : i \in 1..Len(cloud[t])})]]

\* lines 115-127; the five fingertip series have the trajectory's length
TipsDistance(d, cloud) ==
    LET traj == d.obj_trajectory
        obj_verts_transf == [t \in 1..Len(traj) |-> [i \in 1..Len(cloud) |->
                                VecAdd(MatVec(traj[t].R, cloud[i]), traj[t].p)]]
        tips == [t \in 1..Len(traj) |-> [j \in 1..Len(tip_list) |->
                                d.mano_joints[tip_list[j]][t]]]
        tips_near == ch_dist(tips, obj_verts_transf)
    IN  [t \in 1..Len(traj) |-> [j \in 1..Len(tip_list) |-> [sqrt |-> tips_near[t][j]]]]

\* lines 141-145: the keys filled before np.gradient raises, all if none does
JointsBeforeRaise(mj) ==
    {JointOrder[i] : i \in {i \in DOMAIN JointOrder :
        \A j \in 1..i : ~GradientRaises(mj[JointOrder[j]])}}

\* a truncation that forgets the nested velocity mapping
TruncateAllButJointVelocity(d, L) ==
    Update(d,
      [obj_trajectory |-> SliceTo(d.obj_trajectory, L),
       obj_velocity |-> SliceTo(d.obj_velocity, L),
       obj_angular_velocity |-> SliceTo(d.obj_angular_velocity, L),
       wrist_pos |-> SliceTo(d.wrist_pos, L),
       wrist_rot |-> SliceTo(d.wrist_rot, L),
       mano_joints |-> [k \in DOMAIN d.mano_joints |-> SliceTo(d.mano_joints[k], L)],
       wrist_velocity |-> SliceTo(d.wrist_velocity, L),
       wrist_angular_velocity |-> SliceTo(d.wrist_angular_velocity, L),
       tips_distance |-> SliceTo(d.tips_distance, L)])

\* a truncation that forgets the trajectory itself
TruncateAllButTrajectory(d, L) ==
    Update(d,
      [obj_velocity |-> SliceTo(d.obj_velocity, L),
       obj_angular_velocity |-> SliceTo(d.obj_angular_velocity, L),
       wrist_pos |-> SliceTo(d.wrist_pos, L),
       wrist_rot |-> SliceTo(d.wrist_rot, L),
       mano_joints |-> [k \in DOMAIN d.mano_joints |-> SliceTo(d.mano_joints[k], L)],
       wrist_velocity |-> SliceTo(d.wrist_velocity, L),
       wrist_angular_velocity |-> SliceTo(d.wrist_angular_velocity, L),
       mano_joints_velocity |-> [k \in DOMAIN d.mano_joints_velocity |->
                                    SliceTo(d.mano_joints_velocity[k], L)],
       tips_distance |-> SliceTo(d.tips_distance, L)])

\* lines 147-163, the body of the if
TruncateAll(d, L) ==
    Update(d,
      [obj_trajectory |-> SliceTo(d.obj_trajectory, L),
       obj_velocity |-> SliceTo(d.obj_velocity, L),
       obj_angular_velocity |-> SliceTo(d.obj_angular_velocity, L),
       wrist_pos |-> SliceTo(d.wrist_pos, L),
       wrist_rot |-> SliceTo(d.wrist_rot, L),
       mano_joints |-> [k \in DOMAIN d.mano_joints |-> SliceTo(d.mano_joints[k], L)],
       wrist_velocity |-> SliceTo(d.wrist_velocity, L),
       wrist_angular_velocity |-> SliceTo(d.wrist_angular_velocity, L),
       mano_joints_velocity |-> [k \in DOMAIN d.mano_joints_velocity |->
                                    SliceTo(d.mano_joints_velocity[k], L)],
       tips_distance |-> SliceTo(d.tips_distance, L)])

\* line 147
TooLong(d, L) == Len(d.obj_trajectory) > L

SequenceTruncator(d, L) == IF TooLong(d, L) THEN TruncateAll(d, L) ELSE d

Rots(traj) == [t \in 1..Len(traj) |-> traj[t].R]        \* [:, :3, :3]
Poss(traj) == [t \in 1..Len(traj) |-> traj[t].p]        \* [:, :3, 3]
RotMats(aas) == [t \in 1..Len(aas) |-> aa_to_rotmat(aas[t])]

\* lines 141-163
JointKinematics(d, td, L) ==
    LET filled == JointsBeforeRaise(d.mano_joints)
        d5 == Update(d, [mano_joints_velocity |-> [k \in filled |->
                            compute_velocity(d.mano_joints[k], td, TRUE)]])
    IN  IF filled # JointKeys THEN [data |-> d5, err |-> "ValueError"]
        ELSE [data |-> SequenceTruncator(d5, L), err |-> "none"]

\* lines 135-140, then the rest
WristKinematics(d, td, L) ==
    IF GradientRaises(d.wrist_pos) THEN [data |-> d, err |-> "ValueError"]
    ELSE JointKinematics(
           Update(d, [wrist_velocity |-> compute_velocity(d.wrist_pos, td, TRUE),
                      wrist_angular_velocity |->
                          compute_angular_velocity(RotMats(d.wrist_rot), td, TRUE)]),
           td, L)

\* lines 129-134, then the rest
ObjKinematics(d, td, L) ==
    IF GradientRaises(d.obj_trajectory) THEN [data |-> d, err |-> "ValueError"]
    ELSE WristKinematics(
           Update(d, [obj_velocity |-> compute_velocity(Poss(d.obj_trajectory), td, TRUE),
                      obj_angular_velocity |->
                          compute_angular_velocity(Rots(d.obj_trajectory), td, TRUE)]),
           td, L)

\* lines 115-127, then the rest
ContactDistance(d, cloud, td, L) ==
    ObjKinematics(Update(d, [tips_distance |-> TipsDistance(d, cloud)]), td, L)

(* process_data(data, idx, rs_verts_obj): the Sample it leaves behind and  *)
(* the exception it ends with.  The dict is mutated in place, so what was  *)
(* assigned before an exception stays assigned.                            *)
process_data(d, cloud, F, sk, L) ==
    ContactDistance(TransformFrame(d, F), cloud, TimeDelta(sk), L)

(***************************************************************************)
(* RetargetedPoseLoader, lines 165-213.  The file at retargeted_data_path  *)
(* is [exists |-> FALSE] or [exists |-> TRUE, opt_wrist_pos, opt_wrist_rot,*)
(* opt_dof_pos].                                                           *)
(***************************************************************************)
Zeros(T, D) == [t \in 1..T |-> [j \in 1..D |-> 0]]

\* a fallback whose zero array has its two axes exchanged
FallbackBundleSwapped(d, n_dofs) ==
    [opt_wrist_pos |-> d.wrist_pos,
     opt_wrist_rot |-> d.wrist_rot,
     opt_dof_pos |-> Zeros(n_dofs, Len(d.wrist_pos))]

\* lines 174-180
FallbackBundle(d, n_dofs) ==
    [opt_wrist_pos |-> d.wrist_pos,
     opt_wrist_rot |-> d.wrist_rot,
     opt_dof_pos |-> Zeros(Len(d.wrist_pos), n_dofs)]

\* lines 182-190
LoadedBundle(file) ==
    [opt_wrist_pos |-> file.opt_wrist_pos,
     opt_wrist_rot |-> file.opt_wrist_rot,
     opt_dof_pos |-> file.opt_dof_pos]

\* lines 166-190
Bundle(d, file, n_dofs) ==
    IF ~file.exists THEN FallbackBundle(d, n_dofs) ELSE LoadedBundle(file)

\* lines 203-209
TruncateOpt(d, L) ==
    IF Len(d.opt_wrist_pos) > L
    THEN Update(d,
           [opt_wrist_pos |-> SliceTo(d.opt_wrist_pos, L),
            opt_wrist_rot |-> SliceTo(d.opt_wrist_rot, L),
            opt_wrist_velocity |-> SliceTo(d.opt_wrist_velocity, L),
            opt_wrist_angular_velocity |-> SliceTo(d.opt_wrist_angular_velocity, L),
            opt_dof_pos |-> SliceTo(d.opt_dof_pos, L),
            opt_dof_velocity |-> SliceTo(d.opt_dof_velocity, L)])
    ELSE d

\* line 213
LengthParity(d) == Len(d.opt_wrist_pos) = Len(d.obj_trajectory)

\* the truncation of lines 203-209 with the assertion of line 213 left out
TruncateNoAssert(d, L) == [data |-> TruncateOpt(d, L), err |-> "none"]

\* lines 203-213
TruncateAndAssert(d, L) ==
    IF ~LengthParity(TruncateOpt(d, L))
    THEN [data |-> TruncateOpt(d, L), err |-> "AssertionError"]
    ELSE [data |-> TruncateOpt(d, L), err |-> "none"]

\* lines 197-213
OptDofKinematics(d, td, L) ==
    IF GradientRaises(d.opt_dof_pos) THEN [data |-> d, err |-> "ValueError"]
    ELSE TruncateAndAssert(
           Update(d, [opt_dof_velocity |-> compute_dof_velocity(d.opt_dof_pos, td, TRUE)]),
           L)

\* lines 191-213
OptWristKinematics(d, td, L) ==
    IF GradientRaises(d.opt_wrist_pos) THEN [data |-> d, err |-> "ValueError"]
    ELSE OptDofKinematics(
           Update(d, [opt_wrist_velocity |-> compute_velocity(d.opt_wrist_pos, td, TRUE),
                      opt_wrist_angular_velocity |->
                          compute_angular_velocity(RotMats(d.opt_wrist_rot), td, TRUE)]),
           td, L)

load_retargeted_data(d, file, n_dofs, sk, L) ==
    OptWristKinematics(Update(d, Bundle(d, file, n_dofs)), TimeDelta(sk), L)

(***************************************************************************)
(* The inputs of one request.  The upstream loader hands over a Sample     *)
(* whose series have T frames; Lens lets at most one of wrist_pos,         *)
(* wrist_rot and a joint that is no fingertip arrive with another length.  *)
(* Frame t of every series differs from frame t+1.  A rotation series of   *)
(* one frame beside longer ones is left out: it would reach                *)
(* gaussian_filter1d with an array of no frames.                           *)
(***************************************************************************)
Deviants == {"none", "wrist_pos", "wrist_rot", "index_proximal"}
Lens == {l \in [T : 1..MaxT, dev : Deviants, Td : 1..MaxT] :
            /\ IF l.dev = "none" THEN l.Td = l.T ELSE l.Td # l.T
            /\ l.dev = "wrist_rot" => l.Td >= 2}
LenOf(l, f) == IF l.dev = f THEN l.Td ELSE l.T

JointIndex(k) == CHOOSE i \in DOMAIN JointOrder : JointOrder[i] = k

RawSample(l) ==
    [obj_trajectory |-> [t \in 1..l.T |-> [R |-> MatPow(RZ, t - 1), p |-> <<t - 1, 0, 0>>]],
     wrist_pos |-> [t \in 1..LenOf(l, "wrist_pos") |-> <<0, t, 1>>],
     wrist_rot |-> [t \in 1..LenOf(l, "wrist_rot") |-> MatPow(RX, t - 1)],
     mano_joints |-> [k \in JointKeys |->
         [t \in 1..LenOf(l, k) |-> <<JointIndex(k), t, 0>>]]]

\* the three arrays of a file: the bundle has A frames, at most one of
\* opt_wrist_rot and opt_dof_pos has another length
FileDeviants == {"none", "opt_wrist_rot", "opt_dof_pos"}
FileLens == {l \in [T : 1..MaxT, dev : FileDeviants, Td : 1..MaxT] :
                /\ IF l.dev = "none" THEN l.Td = l.T ELSE l.Td # l.T
                /\ l.dev = "opt_wrist_rot" => l.Td >= 2}
FileOf(l) ==
    [exists |-> TRUE,
     opt_wrist_pos |-> [t \in 1..l.T |-> <<t, t, 0>>],
     opt_wrist_rot |-> [t \in 1..LenOf(l, "opt_wrist_rot") |-> rotmat_to_aa(MatPow(RY, t - 1))],
     opt_dof_pos |-> [t \in 1..LenOf(l, "opt_dof_pos") |-> [j \in 1..NDofs |-> t * j]]]
NoFile == [exists |-> FALSE]
Files == {NoFile} \cup {FileOf(l) : l \in FileLens}

Transforms == {[R |-> RX, p |-> <<0, 0, 1>>]}
Clouds == {<<<<0, 0, 0>>, <<1, 1, 0>>>>}
Skips == {1, 2}
SeqLens == 0..(MaxT + 1)

NoData == [none |-> TRUE]

PipeInit ==
    /\ max_seq_len \in SeqLens
    /\ skip \in Skips
    /\ mujoco2gym_transf \in Transforms
    /\ \E l \in Lens : raw = RawSample(l)
    /\ data = raw
    /\ rs_verts_obj \in Clouds
    /\ artifact \in Files
    /\ stage = "loaded"
    /\ err = "none"
    /\ opt_set = NoData

PipeIdle ==
    /\ max_seq_len = 0 /\ skip = 1 /\ mujoco2gym_transf = [R |-> I3, p |-> <<0, 0, 0>>]
    /\ data = NoData /\ raw = NoData /\ rs_verts_obj = <<>> /\ artifact = NoFile
    /\ stage = "idle" /\ err = "none" /\ opt_set = NoData

\* __getitem__ of a subclass calls process_data on the Sample it assembled
ProcessData ==
    /\ stage = "loaded"
    /\ LET r == process_data(data, rs_verts_obj, mujoco2gym_transf, skip, max_seq_len)
       IN  /\ data' = r.data
           /\ err' = r.err
           /\ stage' = IF r.err = "none" THEN "processed" ELSE "raised"
    /\ UNCHANGED <<max_seq_len, skip, mujoco2gym_transf, raw, rs_verts_obj, artifact,
                   opt_set, av_vars, rng_vars>>

\* ... and then load_retargeted_data
LoadRetargetedData ==
    /\ stage = "processed"
    /\ LET r == load_retargeted_data(data, artifact, NDofs, skip, max_seq_len)
       IN  /\ data' = r.data
           /\ err' = r.err
           /\ stage' = IF r.err = "none" THEN "returned" ELSE "raised"
    /\ opt_set' = Bundle(data, artifact, NDofs)
    /\ UNCHANGED <<max_seq_len, skip, mujoco2gym_transf, raw, rs_verts_obj, artifact,
                   av_vars, rng_vars>>

(***************************************************************************)
(* compute_angular_velocity called on a rotation series of its own.        *)
(***************************************************************************)
RotInputs == {I3, RX, RZ, MatMul(RX, RZ)}
RotSeries == UNION {[1..n -> RotInputs] : n \in 2..MaxT}

AvIdle == av_r = <<>> /\ av_out = <<>> /\ av_stage = [at |-> "idle", filter |-> FALSE, sk |-> 1]

AvInit ==
    /\ av_r \in RotSeries
    /\ av_out = <<>>
    /\ \E f \in BOOLEAN, sk \in Skips : av_stage = [at |-> "called", filter |-> f, sk |-> sk]

ComputeAngularVelocity ==
    /\ av_stage.at = "called"
    /\ av_out' = compute_angular_velocity(av_r, TimeDelta(av_stage.sk), av_stage.filter)
    /\ av_stage' = [av_stage EXCEPT !.at = "returned"]
    /\ UNCHANGED <<av_r, pipe_vars, rng_vars>>

(***************************************************************************)
(* Ambient random number generators.  A generator state is a number below  *)
(* RngMod; seeding with s gives state s % RngMod, a draw moves the state   *)
(* on.  The world W is [numpy, torch, cuda, cudnn].                        *)
(***************************************************************************)
CurrentDevice == 0      \* torch.cuda.current_device()
Devices == 0..(NumDevices - 1)
GenStates == 0..(RngMod - 1)
Seeded(s) == s % RngMod
Advance(g) == (g + 1) % RngMod

World == [numpy |-> numpy_rng, torch |-> torch_rng, cuda |-> cuda_rng, cudnn |-> cudnn]
RngOf(W) == [numpy |-> W.numpy, torch |-> W.torch, cuda |-> W.cuda]

\* pytorch3d's sample_points_from_meshes(mesh, n): the points drawn, a
\* function of the mesh and of the state of the generator of the mesh's device
NumSamples == 2
SampleFrom(verts, g, n) == [i \in 1..n |-> verts[((g + i) % Len(verts)) + 1]]

\* the generator a torch draw on device dev reads and moves on
GenOf(W, dev) == IF dev.kind = "cpu" THEN W.torch ELSE W.cuda[dev.index]
MoveGen(W, dev) ==
    IF dev.kind = "cpu" THEN [W EXCEPT !.torch = Advance(@)]
    ELSE [W EXCEPT !.cuda[dev.index] = Advance(@)]

NoLocals == [numpy_random_state |-> 0, torch_random_state |-> 0,
             torch_random_state_cuda |-> 0, rs_verts_obj |-> <<>>]

\* the lines of random_sampling_pc in order; 103 is the return
Lines == <<86, 87, 88, 89, 90, 91, 92, 93, 96, 99, 100, 101, 103>>
NextLine(l) == Lines[(CHOOSE i \in DOMAIN Lines : Lines[i] = l) + 1]

\* torch.cuda.manual_seed_all(seed)
SeedAllDevices(W, s) == [W EXCEPT !.cuda = [d \in DOMAIN W.cuda |-> Seeded(s)]]
\* a call that does not reseed torch's generators at line 90
TorchManualSeedSkipped(W, s) == W

\* torch.manual_seed(seed): the CPU generator and every device's
TorchManualSeed(W, s) == SeedAllDevices([W EXCEPT !.torch = Seeded(s)], s)
\* torch.cuda.manual_seed(seed): the current device's
CudaManualSeed(W, s) == [W EXCEPT !.cuda[CurrentDevice] = Seeded(s)]

\* torch.cuda.get_rng_state() and set_rng_state(state): the current device's
CudaGetRngState(W) == W.cuda[CurrentDevice]
CudaSetRngState(W, g) == [W EXCEPT !.cuda[CurrentDevice] = g]

(* One line of random_sampling_pc(self, mesh): the world and the locals    *)
(* after it.                                                               *)
Statement(line, W, loc, m) ==
    CASE line = 86 -> [W |-> W, loc |-> [loc EXCEPT !.numpy_random_state = W.numpy]]
      [] line = 87 -> [W |-> W, loc |-> [loc EXCEPT !.torch_random_state = W.torch]]
      [] line = 88 -> [W |-> W, loc |-> [loc EXCEPT !.torch_random_state_cuda = CudaGetRngState(W)]]
      [] line = 89 -> [W |-> [W EXCEPT !.numpy = Seeded(SeedValue)], loc |-> loc]
      [] line = 90 -> [W |-> TorchManualSeed(W, SeedValue), loc |-> loc]
      [] line = 91 -> [W |-> CudaManualSeed(W, SeedValue), loc |-> loc]
      [] line = 92 -> [W |-> SeedAllDevices(W, SeedValue), loc |-> loc]
      [] line = 93 -> [W |-> [W EXCEPT !.cudnn = [deterministic |-> TRUE, benchmark |-> FALSE]],
                       loc |-> loc]
      [] line = 96 -> [W |-> MoveGen(W, m.device),
                       loc |-> [loc EXCEPT !.rs_verts_obj =
                                   SampleFrom(m.verts, GenOf(W, m.device), NumSamples)]]
      [] line = 99 -> [W |-> [W EXCEPT !.numpy = loc.numpy_random_state], loc |-> loc]
      [] line = 100 -> [W |-> [W EXCEPT !.torch = loc.torch_random_state], loc |-> loc]
      [] line = 101 -> [W |-> CudaSetRngState(W, loc.torch_random_state_cuda), loc |-> loc]

\* the whole call, run without interruption from line l on
RECURSIVE RunFrom(_, _, _)
RunFrom(l, st, m) ==
    IF l = 103 THEN st ELSE RunFrom(NextLine(l), Statement(l, st.W, st.loc, m), m)
random_sampling_pc(W, m) == RunFrom(86, [W |-> W, loc |-> NoLocals], m)

MeshVerts == <<<<0, 0, 0>>, <<1, 0, 0>>, <<0, 1, 0>>, <<0, 0, 1>>, <<1, 1, 1>>>>
MeshDevices == {[kind |-> "cpu", index |-> CurrentDevice]}
                 \cup {[kind |-> "cuda", index |-> d] : d \in Devices}
Meshes == {[verts |-> MeshVerts, device |-> dev] : dev \in MeshDevices}

RngIdle ==
    /\ numpy_rng = 0 /\ torch_rng = 0 /\ cuda_rng = <<>> /\ cudnn = NoData
    /\ mesh = NoData /\ wpc = <<>> /\ locals = <<>> /\ ret = <<>>
    /\ rng_before = NoData /\ call_before = <<>> /\ overlapped = FALSE

RngInit(Workers, keep_first) ==
    /\ numpy_rng \in GenStates
    /\ torch_rng \in GenStates
    /\ cuda_rng \in [Devices -> GenStates]
    /\ cudnn = [deterministic |-> FALSE, benchmark |-> FALSE]
    /\ mesh \in Meshes
    /\ wpc = [w \in Workers |-> 0]
    /\ locals = [w \in Workers |-> NoLocals]
    /\ ret = [w \in Workers |-> <<>>]
    /\ rng_before = IF keep_first THEN RngOf(World) ELSE NoData
    /\ call_before = [w \in Workers |-> NoData]
    /\ overlapped = FALSE

SetWorld(W) ==
    /\ numpy_rng' = W.numpy
    /\ torch_rng' = W.torch
    /\ cuda_rng' = W.cuda
    /\ cudnn' = W.cudnn

\* ---- a single-threaded caller: the call runs from line 86 to the return
CallSampler ==
    /\ wpc[1] \in {0, 103}
    /\ Len(ret[1]) < MaxCalls
    /\ call_before' = [call_before EXCEPT ![1] = RngOf(World)]
    /\ SetWorld(random_sampling_pc(World, mesh).W)
    /\ locals' = locals      \* the call's locals end with it
    /\ ret' = [ret EXCEPT ![1] = Append(@, random_sampling_pc(World, mesh).loc.rs_verts_obj)]
    /\ wpc' = [wpc EXCEPT ![1] = 103]
    /\ UNCHANGED <<mesh, rng_before, overlapped, pipe_vars, av_vars>>

\* the caller's other code draws from one of the ambient generators
AmbientDraw ==
    /\ \/ numpy_rng' = Advance(numpy_rng) /\ UNCHANGED <<torch_rng, cuda_rng>>
       \/ torch_rng' = Advance(torch_rng) /\ UNCHANGED <<numpy_rng, cuda_rng>>
       \/ \E d \in Devices :
            /\ cuda_rng' = [cuda_rng EXCEPT ![d] = Advance(@)]
            /\ UNCHANGED <<numpy_rng, torch_rng>>
    /\ wpc' = [wpc EXCEPT ![1] = 0]
    /\ call_before' = [call_before EXCEPT ![1] = NoData]
    /\ UNCHANGED <<cudnn, mesh, locals, ret, rng_before, overlapped,
                   pipe_vars, av_vars>>

\* ---- two workers on the same generators, one line at a time
InSection(l) == l # 0 /\ l # 103
LineAt(w) == IF wpc[w] = 0 THEN 86 ELSE wpc[w]

WorkerStep(w) ==
    /\ wpc[w] # 103
    /\ SetWorld(Statement(LineAt(w), World, locals[w], mesh).W)
    /\ locals' = [locals EXCEPT ![w] = Statement(LineAt(w), World, locals[w], mesh).loc]
    /\ wpc' = [wpc EXCEPT ![w] = NextLine(LineAt(w))]
    /\ ret' = IF NextLine(LineAt(w)) = 103
              THEN [ret EXCEPT ![w] = Append(@, locals[w].rs_verts_obj)]
              ELSE ret
    /\ call_before' = IF wpc[w] = 0 THEN [call_before EXCEPT ![w] = RngOf(World)]
                      ELSE call_before
    /\ overlapped' = (overlapped \/
                        (wpc[w] = 0 /\ \E o \in DOMAIN wpc : o # w /\ InSection(wpc[o])))
    /\ UNCHANGED <<mesh, rng_before, pipe_vars, av_vars>>

Init == PipeInit /\ AvIdle /\ RngIdle
Next == ProcessData \/ LoadRetargetedData
Spec == Init /\ [][Next]_vars

InitAV == PipeIdle /\ AvInit /\ RngIdle
NextAV == ComputeAngularVelocity
SpecAV == InitAV /\ [][NextAV]_vars

InitRNG == PipeIdle /\ AvIdle /\ RngInit({1}, FALSE)
NextRNG == CallSampler \/ AmbientDraw
SpecRNG == InitRNG /\ [][NextRNG]_vars

InitRace == PipeIdle /\ AvIdle /\ RngInit({1, 2}, TRUE)
NextRace == \E w \in {1, 2} : WorkerStep(w)
SpecRace == InitRace /\ [][NextRace]_vars

(***************************************************************************)
(* Properties of the sample request (specification Spec).                  *)
(***************************************************************************)
\* the per-frame fields process_data leaves at the top level of the Sample
TopFields == {"obj_trajectory", "obj_velocity", "obj_angular_velocity", "wrist_pos",
              "wrist_rot", "wrist_velocity", "wrist_angular_velocity", "tips_distance"}
OptFields == {"opt_wrist_pos", "opt_wrist_rot", "opt_dof_pos", "opt_wrist_velocity",
              "opt_wrist_angular_velocity", "opt_dof_velocity"}

\* the lengths of the series of a Sample that process_data returned
LensOf(d) ==
    {Len(d[f]) : f \in TopFields} \cup {Len(d.mano_joints[k]) : k \in JointKeys}
        \cup {Len(d.mano_joints_velocity[k]) : k \in JointKeys}

\* the lengths of the primary series the upstream loader handed over
RawLens == {Len(raw.obj_trajectory), Len(raw.wrist_pos), Len(raw.wrist_rot)}
               \cup {Len(raw.mano_joints[k]) : k \in JointKeys}
FrameCoherent == Cardinality(RawLens) = 1
RawT == Len(raw.obj_trajectory)

\* load_retargeted_data was called: its first assignment is in the Sample
LoadRan == "opt_wrist_pos" \in DOMAIN data

\* what process_data leaves when nothing is too long
Untruncated == process_data(raw, rs_verts_obj, mujoco2gym_transf, skip, RawT).data

IsPrefix(s, u, n) == Len(s) = n /\ s = SubSeq(u, 1, n)

\* C1: when every series of the sample has T frames and T > max_seq_len = L,
\* then after process_data returns every per-frame field (the eight top-level
\* ones, every mano_joints[k], every mano_joints_velocity[k]) has exactly L
\* frames, and they are the first L frames of the untruncated field.
C1_TruncationAtomicity ==
    (stage = "processed" /\ FrameCoherent /\ RawT > max_seq_len) =>
        /\ \A f \in TopFields : IsPrefix(data[f], Untruncated[f], max_seq_len)
        /\ \A k \in JointKeys :
            /\ IsPrefix(data.mano_joints[k], Untruncated.mano_joints[k], max_seq_len)
            /\ IsPrefix(data.mano_joints_velocity[k],
                        Untruncated.mano_joints_velocity[k], max_seq_len)

\* C1's case: a coherent sample of MaxT frames cut to two
C1_Witness ==
    stage = "processed" /\ FrameCoherent /\ RawT = MaxT /\ max_seq_len = 2
    /\ Len(data.tips_distance) = 2

\* C9, as claimed: if any primary series is longer than max_seq_len at the
\* truncation step, then after process_data returns no per-frame field is
\* longer than max_seq_len.
C9_AnyFieldTriggers ==
    (stage = "processed" /\ \E n \in RawLens : n > max_seq_len) =>
        \A n \in LensOf(data) : n <= max_seq_len

\* C2: load_retargeted_data returns normally only with len(opt_wrist_pos) =
\* len(obj_trajectory); whenever it reaches line 213 with the two lengths
\* different it ends with AssertionError and nothing is returned.
C2_LengthParityPostcondition ==
    /\ stage = "returned" => LengthParity(data)
    /\ ("opt_dof_velocity" \in DOMAIN data /\ ~LengthParity(data)) =>
            (stage = "raised" /\ err = "AssertionError")

\* C2's case: a file whose arrays have another frame count than the trajectory
C2_Witness ==
    /\ stage = "raised" /\ err = "AssertionError"
    /\ artifact.exists
    /\ Len(data.opt_wrist_pos) # Len(data.obj_trajectory)

\* C5: with no file at retargeted_data_path, load_retargeted_data sets
\* opt_wrist_pos to wrist_pos, opt_wrist_rot to wrist_rot and opt_dof_pos to
\* zeros of shape T x D, T the frame count of wrist_pos and D = n_dofs; and
\* the Sample keeps these values when wrist_pos is not longer than max_seq_len.
C5_FallbackBundleParity ==
    (LoadRan /\ ~artifact.exists) =>
        /\ opt_set.opt_wrist_pos = data.wrist_pos
        /\ opt_set.opt_wrist_rot = data.wrist_rot
        /\ Len(opt_set.opt_dof_pos) = Len(data.wrist_pos)
        /\ \A t \in 1..Len(opt_set.opt_dof_pos) :
              /\ Len(opt_set.opt_dof_pos[t]) = NDofs
              /\ \A j \in 1..NDofs : opt_set.opt_dof_pos[t][j] = 0
        /\ Len(data.wrist_pos) <= max_seq_len =>
              /\ data.opt_wrist_pos = opt_set.opt_wrist_pos
              /\ data.opt_wrist_rot = opt_set.opt_wrist_rot
              /\ data.opt_dof_pos = opt_set.opt_dof_pos

\* C5's case: the fallback branch taken on a sample of MaxT frames
C5_Witness ==
    stage = "returned" /\ ~artifact.exists /\ Len(data.wrist_pos) = MaxT
    /\ Len(data.opt_dof_pos) = MaxT

\* C6, as claimed: whenever process_data and load_retargeted_data complete
\* without raising, all per-frame fields of the Sample, the six opt_ fields
\* included, have the length of obj_trajectory.
C6_SampleWideLengthConsistency ==
    stage = "returned" =>
        /\ \A n \in LensOf(data) : n = Len(data.obj_trajectory)
        /\ \A f \in OptFields : Len(data[f]) = Len(data.obj_trajectory)

\* C6 restricted to frame-coherent samples: the file alone breaks it
C6_CoherentSampleLengthConsistency ==
    (stage = "returned" /\ FrameCoherent) =>
        \A f \in OptFields : Len(data[f]) = Len(data.obj_trajectory)

\* C7, as claimed: for a frame-coherent sample of T >= 2 frames and every
\* max_seq_len, process_data and load_retargeted_data with no file never raise.
C7_FallbackNeverRaises ==
    (FrameCoherent /\ RawT >= 2 /\ ~artifact.exists) => stage # "raised"

\* C7, amended: for a frame-coherent sample of T >= 2 frames and no file, the
\* length-parity assertion never fails; the request raises exactly when
\* max_seq_len < 2, the ValueError of np.gradient on the series cut below two
\* frames, and completes for every max_seq_len >= 2.
C7_FallbackRaisesOnlyBelowTwoFrames ==
    (FrameCoherent /\ RawT >= 2 /\ ~artifact.exists /\ LoadRan) =>
        /\ err # "AssertionError"
        /\ max_seq_len >= 2 => (stage = "returned" /\ err = "none")
        /\ max_seq_len < 2 => (stage = "raised" /\ err = "ValueError")

\* C7's case: fallback on a truncated coherent sample that completes
C7_Witness ==
    /\ FrameCoherent /\ RawT = MaxT /\ max_seq_len = 2 /\ ~artifact.exists
    /\ stage = "returned" /\ Len(data.opt_wrist_pos) = 2

(***************************************************************************)
(* Properties of compute_angular_velocity (specification SpecAV).          *)
(***************************************************************************)
\* C8: for a series of T >= 2 rotations and smoothing disabled,
\* compute_angular_velocity returns T frames; frame t < T comes from the
\* relative rotation r[t+1] @ r[t]^T, and the last frame repeats frame T-1.
C8_LastFrameRepeat ==
    (av_stage.at = "returned" /\ ~av_stage.filter /\ Len(av_r) >= 2) =>
        /\ Len(av_out) = Len(av_r)
        /\ \A t \in 1..(Len(av_r) - 1) :
              av_out[t] = AxisAngleRate(
                              rotmat_to_aa(MatMul(av_r[t + 1], Transpose(av_r[t]))),
                              TimeDelta(av_stage.sk))
        /\ av_out[Len(av_r)] = av_out[Len(av_r) - 1]

\* C8's case: MaxT frames whose two relative rotations differ
C8_Witness ==
    /\ av_stage.at = "returned" /\ ~av_stage.filter /\ Len(av_r) = MaxT
    /\ Len(av_out) = MaxT
    /\ av_out[1] # av_out[2]
    /\ av_out[1].num # 0

(***************************************************************************)
(* Properties of random_sampling_pc with a single-threaded caller          *)
(* (specification SpecRNG).                                                *)
(***************************************************************************)
\* C3, as claimed: when random_sampling_pc has returned, the numpy generator,
\* the torch CPU generator and the generator of every device are as they
\* were immediately before the call.
C3_AmbientRngRestored ==
    wpc[1] = 103 => RngOf(World) = call_before[1]

\* what the call does restore: numpy, torch CPU and the current device
C3_SavedGeneratorsRestored ==
    wpc[1] = 103 =>
        /\ numpy_rng = call_before[1].numpy
        /\ torch_rng = call_before[1].torch
        /\ cuda_rng[CurrentDevice] = call_before[1].cuda[CurrentDevice]

\* C4: two calls of random_sampling_pc on the same mesh return identical
\* clouds, whatever the ambient generator states at each call and whatever
\* was drawn in between: the cloud is the seed-0 draw from the mesh.
C4_SamplerDeterminism ==
    /\ \A i \in 1..Len(ret[1]) :
          ret[1][i] = SampleFrom(mesh.verts, Seeded(SeedValue), NumSamples)
    /\ Len(ret[1]) = MaxCalls => \A i, j \in 1..MaxCalls : ret[1][i] = ret[1][j]

\* C4's case: a second call that started with the generator of the mesh's
\* device away from its seed-0 state
C4_Witness ==
    /\ wpc[1] = 103 /\ Len(ret[1]) = 2
    /\ GenOf(call_before[1], mesh.device) # Seeded(SeedValue)
    /\ call_before[1].numpy # Seeded(SeedValue)

(***************************************************************************)
(* Properties of two workers in random_sampling_pc (specification          *)
(* SpecRace).                                                              *)
(***************************************************************************)
BothReturned == \A w \in DOMAIN wpc : wpc[w] = 103

\* C10, as claimed: when the two save..restore sections did not overlap, the
\* global generator state after both workers finished is the state before
\* either started.
C10_SerializedSectionsRestore ==
    (BothReturned /\ ~overlapped) => RngOf(World) = rng_before

\* the generators the section saves are restored when the sections did not
\* overlap ...
C10_SerializedSavedGeneratorsRestore ==
    (BothReturned /\ ~overlapped) =>
        /\ numpy_rng = rng_before.numpy
        /\ torch_rng = rng_before.torch
        /\ cuda_rng[CurrentDevice] = rng_before.cuda[CurrentDevice]

\* ... and this is what fails for some interleaving: it would say that they
\* are restored in every schedule
C10_AnyScheduleSavedGeneratorsRestore ==
    BothReturned =>
        /\ numpy_rng = rng_before.numpy
        /\ torch_rng = rng_before.torch
        /\ cuda_rng[CurrentDevice] = rng_before.cuda[CurrentDevice]

====
